---- MODULE Spec2Model ----
(***************************************************************************)
(* A model of the meal analysis service of api.calorily.com:               *)
(*   src/calorily/features/meals/service.py   (MealService)                *)
(*   src/calorily/features/meals/handlers.py  (MealHandlers)               *)
(*                                                                         *)
(* The service runs on one asyncio event loop.  Code between two awaits    *)
(* that can suspend is atomic; every MongoDB operation, the analyzer call  *)
(* and every ws.send_json is a point where the task can be suspended.  An  *)
(* action of this model is one such atomic block: the store operation (or  *)
(* the send) that ends the await, followed by the code that runs until the *)
(* next await is issued.                                                   *)
(*                                                                         *)
(* Modelling conventions                                                   *)
(*   - datetime.utcnow(): every read returns a value larger than the one   *)
(*     before (the variable now is the last value handed out).             *)
(*   - a collection is the sequence of its documents in insertion order,   *)
(*     which is the order of the ObjectIds (_id) the driver generates, so  *)
(*     "the document with the greatest _id" is the last one in the         *)
(*     sequence.                                                           *)
(*   - the (meal_name, ingredients) pair an analyzer run produces is       *)
(*     identified by the index of the job that ran it (field result).      *)
(*   - isoformat() of a timestamp is injective and order preserving on the *)
(*     naive UTC datetimes the service produces; timestamps stay numbers.  *)
(***************************************************************************)
EXTENDS Integers, Sequences, FiniteSets, TLC

\* ---------------------------------------------------------------- bounds
MaxJobs == 2
MaxTime == 4
MaxHistory == 2
MaxDocs == 2
MaxStamp == 2
MaxLen == 3

Users == {"u1", "u2"}
\* The clients that send requests, each with the user_id of its token; u1
\* has two, which can have requests in flight at the same time.
Clients == Users \cup {"u1b"}
UserOf(k) == IF k = "u1b" THEN "u1" ELSE k
MealIds == {"m1", "m2"}
Images == {"imgA"}
Texts == {"f1", "f2"}
Conns == {"c1", "c2", "c3", "c4", "c5"}
\* Iterating a set visits its hash table slot by slot; the slot of a socket
\* follows from its hash, its address.  The sockets are interchangeable, so
\* they are named in the order of their slots (until a table is rebuilt).
ConnOrder == <<"c1", "c2", "c3", "c4", "c5">>
Slot(c) == CHOOSE k \in DOMAIN ConnOrder : ConnOrder[k] = c
\* what `await analyze_meal(...)` can hand to analyze_task
Outcomes == {"ok", "error", "none", "raise"}
Times == 0..MaxTime

VARIABLES
    meals,          \* db.meals: meal_id -> document (unique index on meal_id)
    analysis,       \* db.analysis, in insertion (_id) order
    feedback,       \* db.feedback, in insertion (_id) order
    ws_connections, \* MealService.ws_connections: user_id -> set of sockets
    ws_table,       \* the hash table of each of these set objects: slots in
                    \* use or left as dummies (fill) and table size - 1 (mask)
    conn,           \* each socket: its state and the user of its handler
    inbox,          \* the messages send_json wrote to each socket
    jobs,           \* the analyze_task tasks, in the order they were created
    req,            \* each user's HTTP request in progress (or its answer)
    now             \* the last value datetime.utcnow() returned

vars == <<meals, analysis, feedback, ws_connections, ws_table, conn, inbox, jobs, req, now>>

\* ------------------------------------------------------ connection registry

register_ws_connection(ws, user_id, c) ==
    IF user_id \in DOMAIN ws
    THEN [ws EXCEPT ![user_id] = @ \cup {c}]
    ELSE [x \in DOMAIN ws \cup {user_id} |-> IF x = user_id THEN {c} ELSE ws[x]]

\* (without the `del` a user's entry would stay behind, empty)
unregister_keeps_entry(ws, user_id, c) ==
    IF user_id \in DOMAIN ws THEN [ws EXCEPT ![user_id] = @ \ {c}] ELSE ws

\* (a clean-up that resets the registry instead of deleting the user's key)
unregister_resets_registry(ws, user_id, c) ==
    IF user_id \in DOMAIN ws
    THEN IF ws[user_id] \ {c} = {}
         THEN <<>>
         ELSE [ws EXCEPT ![user_id] = @ \ {c}]
    ELSE ws

unregister_ws_connection(ws, user_id, c) ==
    IF user_id \in DOMAIN ws
    THEN IF ws[user_id] \ {c} = {}
         THEN [x \in DOMAIN ws \ {user_id} |-> ws[x]]
         ELSE [ws EXCEPT ![user_id] = @ \ {c}]
    ELSE ws

\* the clean-up loop of notify_user: unregister every dead connection
RECURSIVE unregister_dead(_, _, _)
unregister_dead(ws, user_id, dead) ==
    IF dead = {} THEN ws
    ELSE LET c == CHOOSE x \in dead : TRUE
         IN unregister_dead(unregister_ws_connection(ws, user_id, c), user_id, dead \ {c})

\* A task suspended inside notify_user's for loop holds the set object it
\* iterates.  Once `del self.ws_connections[user_id]` has run, that object is
\* empty and no longer the registry's: its size differs from the size the
\* iterator recorded, whatever is registered afterwards.
DetachIterators(js, wsOld, wsNew) ==
    [i \in DOMAIN js |->
        IF js[i].pc = "notify" /\ js[i].user_id \in DOMAIN wsOld
                               /\ js[i].user_id \notin DOMAIN wsNew
        THEN [js[i] EXCEPT !.it_stale = TRUE]
        ELSE js[i]]

\* ------------------------------------------------------------------ store

Max(S) == CHOOSE x \in S : \A y \in S : y <= x

Docs(coll, meal_id) == {i \in DOMAIN coll : coll[i].meal_id = meal_id}

\* find_one({"meal_id": meal_id}, sort=[("timestamp", -1)]) on db.analysis
find_latest_analysis(meal_id) ==
    LET S == Docs(analysis, meal_id)
    IN IF S = {} THEN 0
       ELSE CHOOSE i \in S : \A k \in S : analysis[k].timestamp <= analysis[i].timestamp

get_meal_analysis(meal_id) ==
    LET i == find_latest_analysis(meal_id)
    IN IF i = 0 THEN {}
       ELSE {[meal_id |-> analysis[i].meal_id, result |-> analysis[i].result,
              timestamp |-> analysis[i].timestamp]}

\* {"$group": {"_id": "$meal_id", "latest_analysis": {"$max": "$$ROOT"}}}:
\* $max compares whole documents, field by field in stored order; the first
\* field of a stored document is _id, and two documents never share it.
group_max_root(S) == Max(S)

\* {"$match": {..., "timestamp": {"$gt": since}}}
match_since_gte(timestamp, since) == timestamp >= since

match_since_lt(timestamp, since) == timestamp < since

match_since(timestamp, since) == timestamp > since

\* the aggregate pipeline of fetch_analyses_since: $match, $group, $project
aggregate_since(meal_ids, since) ==
    LET matched == {i \in DOMAIN analysis :
                        /\ analysis[i].meal_id \in meal_ids
                        /\ match_since(analysis[i].timestamp, since)}
        groups == {analysis[i].meal_id : i \in matched}
    IN {LET i == group_max_root({k \in matched : analysis[k].meal_id = m})
        IN [meal_id |-> m, result |-> analysis[i].result,
            timestamp |-> analysis[i].timestamp] : m \in groups}

\* meals.find({"user_id": user_id})
find_user_meals(user_id) == {m \in DOMAIN meals : meals[m].user_id = user_id}

\* fetch_analyses_since on a store that no request or task writes meanwhile
fetch_analyses_since(user_id, since) ==
    aggregate_since(find_user_meals(user_id), since)

\* feedback.find({"meal_id": meal_id}, sort=[("timestamp", -1)]), the texts
RECURSIVE SortDesc(_)
SortDesc(S) ==
    IF S = {} THEN <<>>
    ELSE LET i == CHOOSE x \in S : \A y \in S : feedback[y].timestamp <= feedback[x].timestamp
         IN <<feedback[i].feedback>> \o SortDesc(S \ {i})

find_feedback_history(meal_id) == SortDesc(Docs(feedback, meal_id))

RemoveMeal(coll, meal_id) == SelectSeq(coll, LAMBDA d : d.meal_id # meal_id)

\* History, not program state: the tasks of a meal id that a delete request
\* has since removed from db.meals or db.analysis.
MarkOrphans(js, meal_id) ==
    [i \in DOMAIN js |->
        IF js[i].meal_id = meal_id THEN [js[i] EXCEPT !.orphan = TRUE] ELSE js[i]]

\* --------------------------------------------------- the analyzer's output

\* The JSON values of an ingredient's carbs, proteins and fats: an integer, a
\* float, a string, another value (null), or no such key.  Numbers are held
\* as multiples of 1/Scale.
RECURSIVE Pow10(_)
Pow10(n) == IF n = 0 THEN 1 ELSE 10 * Pow10(n - 1)
Scale == Pow10(MaxLen)
Chars == {"1", "5", ".", "g"}
Strs == UNION {[1..n -> Chars] : n \in 0..MaxLen}
IntValue(n) == [t |-> "int", n |-> n * Scale, s |-> <<>>]
FloatValue(n) == [t |-> "float", n |-> n, s |-> <<>>]
StrValue(s) == [t |-> "str", n |-> 0, s |-> s]
NoneValue == [t |-> "none", n |-> 0, s |-> <<>>]
MissingValue == [t |-> "missing", n |-> 0, s |-> <<>>]
Plain == {IntValue(3), FloatValue((5 * Scale) \div 2), NoneValue, MissingValue}
Values == Plain \cup {StrValue(s) : s \in Strs}
\* the ingredients the model may return: at most one string per ingredient
Ingredients ==
    {[carbs |-> a, proteins |-> b, fats |-> c] : a \in Values, b \in Plain, c \in Plain}
    \cup {[carbs |-> a, proteins |-> b, fats |-> c] : a \in Plain, b \in Values, c \in Plain}
    \cup {[carbs |-> a, proteins |-> b, fats |-> c] : a \in Plain, b \in Plain, c \in Values}
NoOutput == [parsed |-> FALSE, ingredients |-> <<>>]
\* a meal without ingredients, or with one
Outputs ==
    {[parsed |-> TRUE, ingredients |-> l] : l \in {<<>>} \cup {<<x>> : x \in Ingredients}}

isdigit(ch) == ch \in {"0", "1", "2", "3", "4", "5", "6", "7", "8", "9"}
digit(ch) ==
    CASE ch = "0" -> 0 [] ch = "1" -> 1 [] ch = "2" -> 2 [] ch = "3" -> 3
      [] ch = "4" -> 4 [] ch = "5" -> 5 [] ch = "6" -> 6 [] ch = "7" -> 7
      [] ch = "8" -> 8 [] ch = "9" -> 9

\* the end of the longest run of digits that starts at position i
RECURSIVE digits_end(_, _)
digits_end(s, i) ==
    IF i + 1 <= Len(s) /\ isdigit(s[i + 1]) THEN digits_end(s, i + 1) ELSE i

\* re.search(r"\d+(\.\d+)?", value).group(), <<>> when nothing matches
re_search_number(s) ==
    IF \A i \in DOMAIN s : ~isdigit(s[i]) THEN <<>>
    ELSE LET start == CHOOSE i \in DOMAIN s :
                         isdigit(s[i]) /\ \A k \in 1..(i - 1) : ~isdigit(s[k])
             e == digits_end(s, start)
         IN IF e + 2 <= Len(s) /\ s[e + 1] = "." /\ isdigit(s[e + 2])
            THEN SubSeq(s, start, digits_end(s, e + 2))
            ELSE SubSeq(s, start, e)

\* int() of a run of digits
RECURSIVE int_of(_)
int_of(ds) ==
    IF ds = <<>> THEN 0
    ELSE int_of(SubSeq(ds, 1, Len(ds) - 1)) * 10 + digit(ds[Len(ds)])

\* float() of a decimal literal, in multiples of 1/Scale
float_of(m) ==
    IF \E i \in DOMAIN m : m[i] = "."
    THEN LET p == CHOOSE i \in DOMAIN m : m[i] = "."
             frac == SubSeq(m, p + 1, Len(m))
         IN int_of(SubSeq(m, 1, p - 1)) * Scale
               + (int_of(frac) * Scale) \div Pow10(Len(frac))
    ELSE int_of(m) * Scale

extract_float(value) ==
    IF value.t = "float" THEN value
    ELSE IF value.t = "str"
         THEN IF re_search_number(value.s) # <<>>
              THEN FloatValue(float_of(re_search_number(value.s)))
              ELSE FloatValue(0)
         ELSE FloatValue(0)

\* ingredient.get(key, 0)
ingredient_get(value) == IF value.t = "missing" THEN IntValue(0) ELSE value

ensure_typing(data) ==
    [data EXCEPT !.ingredients =
        [i \in DOMAIN data.ingredients |->
            [carbs |-> extract_float(ingredient_get(data.ingredients[i].carbs)),
             proteins |-> extract_float(ingredient_get(data.ingredients[i].proteins)),
             fats |-> extract_float(ingredient_get(data.ingredients[i].fats))]]]

\* ------------------------------------------------------------------- jobs

NoData == [meal_id |-> "", user_id |-> "", b64_img |-> "",
           latest_analysis |-> 0, feedback_history |-> <<>>]

\* analyze_meal: the feedback text its prompt quotes,
\* meal_data["feedback_history"][-1]["feedback"], or None ("") without history
latest_feedback(meal_data) ==
    IF Len(meal_data.feedback_history) > 0
    THEN meal_data.feedback_history[Len(meal_data.feedback_history)]
    ELSE ""

\* asyncio.create_task(analyze_task()): the task, the meal_data it closes over
\* and the prompt analyze_meal builds from it before its request is sent
NewJob(meal_data, origin) ==
    [meal_data |-> meal_data, meal_id |-> meal_data.meal_id,
     latest_feedback |-> latest_feedback(meal_data),
     user_id |-> meal_data.user_id, origin |-> origin,
     pc |-> "analyzing", result |-> "pending", timestamp |-> 0,
     event |-> "", error |-> "", cont |-> "", in_handler |-> FALSE,
     it_start |-> {}, it_seen |-> {}, it_used |-> 0, it_stale |-> FALSE,
     dead |-> {}, was_dead |-> {}, called |-> <<>>, stored |-> "unset", orphan |-> FALSE,
     output |-> NoOutput, typed |-> NoOutput]

\* the task has ended: its frame and the iterator it held are gone
Finished(J, pc) ==
    [J EXCEPT !.pc = pc, !.meal_data = NoData, !.latest_feedback = "", !.timestamp = 0,
              !.event = "", !.error = "", !.cont = "", !.in_handler = FALSE,
              !.it_start = {}, !.it_seen = {}, !.it_used = 0,
              !.it_stale = FALSE, !.dead = {}, !.was_dead = {}]

Message(j, J) ==
    [meal_id |-> J.meal_id, event |-> J.event, error |-> J.error,
     result |-> IF J.event = "analysis_complete" THEN j ELSE 0,
     timestamp |-> IF J.event = "analysis_complete" THEN J.timestamp ELSE 0]

\* one turn of `for ws in self.ws_connections[user_id]`: the next socket and
\* the await ws.send_json(message) on it
NotifySend(j, J) ==
    \E c \in ws_connections[J.user_id] \ J.it_seen :
        LET sent == conn[c].state = "open"
        IN /\ \A d \in ws_connections[J.user_id] \ J.it_seen : Slot(c) <= Slot(d)
           /\ jobs' = [jobs EXCEPT ![j] =
                          [J EXCEPT !.pc = "notify", !.it_seen = @ \cup {c},
                                    !.dead = IF sent THEN @ ELSE @ \cup {c}]]
           /\ inbox' = IF sent THEN [inbox EXCEPT ![c] = Append(@, Message(j, J))]
                       ELSE inbox
           /\ UNCHANGED <<ws_connections, ws_table>>

\* notify_user has returned (ws is the registry it leaves): the code after it
NotifyReturn(j, J, ws) ==
    LET J2 == IF J.cont = "store"
              THEN [J EXCEPT !.pc = "add_analysis_find", !.it_start = {},
                             !.it_seen = {}, !.it_used = 0, !.it_stale = FALSE,
                             !.dead = {}]
              ELSE Finished(J, "done")
    IN /\ jobs' = [DetachIterators(jobs, ws_connections, ws) EXCEPT ![j] = J2]
       /\ ws_connections' = ws
       /\ ws_table' = [x \in DOMAIN ws |-> ws_table[x]]
       /\ UNCHANGED inbox

\* (without the `if user_id not in self.ws_connections: return` the lookup
\* self.ws_connections[user_id] raises KeyError into the caller)
NotifyCall_unguarded(j, J, event, error, cont) ==
    LET J1 == [J EXCEPT !.event = event, !.error = error, !.cont = cont,
                        !.called = Append(@, event),
                        !.it_seen = {}, !.dead = {}, !.it_stale = FALSE,
                        !.was_dead = @ \cup J.dead,
                        !.it_start = IF J.user_id \in DOMAIN ws_connections
                                     THEN ws_connections[J.user_id] ELSE {},
                        !.it_used = IF J.user_id \in DOMAIN ws_connections
                                    THEN Cardinality(ws_connections[J.user_id]) ELSE 0]
    IN IF J.user_id \notin DOMAIN ws_connections
       THEN /\ jobs' = [jobs EXCEPT ![j] = Finished(J1, "crashed")]
            /\ UNCHANGED <<ws_connections, ws_table, inbox>>
       ELSE NotifySend(j, J1)

\* await self.notify_user(user_id, message), up to its first suspension
NotifyCall(j, J, event, error, cont) ==
    LET J1 == [J EXCEPT !.event = event, !.error = error, !.cont = cont,
                        !.called = Append(@, event),
                        !.it_seen = {}, !.dead = {}, !.it_stale = FALSE,
                        !.was_dead = @ \cup J.dead,   \* history
                        !.it_start = IF J.user_id \in DOMAIN ws_connections
                                     THEN ws_connections[J.user_id] ELSE {},
                        !.it_used = IF J.user_id \in DOMAIN ws_connections
                                    THEN Cardinality(ws_connections[J.user_id]) ELSE 0]
    IN IF J.user_id \notin DOMAIN ws_connections
       THEN NotifyReturn(j, J1, ws_connections)
       ELSE NotifySend(j, J1)

\* an exception raised inside analyze_task: `except Exception` notifies
\* analysis_failed; an exception raised by that notify_user leaves the task
JobRaise(j, J) ==
    IF J.in_handler
    THEN /\ jobs' = [jobs EXCEPT ![j] = Finished(J, "crashed")]
         /\ UNCHANGED <<ws_connections, ws_table, inbox>>
    ELSE NotifyCall(j, [J EXCEPT !.in_handler = TRUE],
                    "analysis_failed", "internal", "return")

\* after the analysis_failed notification of an unusable result: `return`
after_failed_notify_falls_through == "store"

after_failed_notify == "return"

\* analyze_meal has parsed the model's JSON: return ensure_typing(output)
analyze_meal_ensure_typing(j) ==
    /\ j \in DOMAIN jobs
    /\ jobs[j].pc = "analyzing"
    /\ ~jobs[j].output.parsed
    /\ \E output \in Outputs :
          jobs' = [jobs EXCEPT ![j].output = output, ![j].typed = ensure_typing(output)]
    /\ UNCHANGED <<meals, analysis, feedback, ws_connections, ws_table, conn, inbox, req, now>>

\* result = await analyze_meal(session, api_key, meal_data) ends
AnalyzerReturns(j, outcome) ==
    /\ j \in DOMAIN jobs
    /\ jobs[j].pc = "analyzing"
    /\ LET J == [jobs[j] EXCEPT !.result = outcome]
       IN CASE outcome = "none" ->
                 /\ NotifyCall(j, J, "analysis_failed", "no_response", after_failed_notify)
                 /\ UNCHANGED now
            [] outcome = "error" ->
                 /\ NotifyCall(j, J, "analysis_failed", "analyzer_error", after_failed_notify)
                 /\ UNCHANGED now
            [] outcome = "raise" ->
                 /\ JobRaise(j, J)
                 /\ UNCHANGED now
            [] outcome = "ok" ->
                 /\ now < MaxTime
                 /\ now' = now + 1
                 /\ NotifyCall(j, [J EXCEPT !.timestamp = now + 1],
                               "analysis_complete", "", "store")
    /\ UNCHANGED <<meals, analysis, feedback, conn, req>>

\* the task resumes inside notify_user's loop after a send
NotifyResume(j) ==
    /\ j \in DOMAIN jobs
    /\ jobs[j].pc = "notify"
    /\ LET J == jobs[j]
           live == ~J.it_stale /\ J.user_id \in DOMAIN ws_connections
       IN IF ~live \/ Cardinality(ws_connections[J.user_id]) # J.it_used
          THEN JobRaise(j, J)   \* RuntimeError: Set changed size during iteration
          ELSE IF ws_connections[J.user_id] \ J.it_seen = {}
               THEN NotifyReturn(j, J, unregister_dead(ws_connections, J.user_id, J.dead))
               ELSE NotifySend(j, J)
    /\ UNCHANGED <<meals, analysis, feedback, conn, req, now>>

\* add_analysis: meal = await self.meals.find_one({"meal_id": meal_id})
add_analysis_find(j) ==
    /\ j \in DOMAIN jobs
    /\ jobs[j].pc = "add_analysis_find"
    /\ jobs' = [jobs EXCEPT ![j] =
                   IF jobs[j].meal_id \in DOMAIN meals
                   THEN [@ EXCEPT !.pc = "add_analysis_insert"]
                   ELSE Finished([@ EXCEPT !.stored = "false"], "done")]
    /\ UNCHANGED <<meals, analysis, feedback, ws_connections, ws_table, conn, inbox, req, now>>

\* (an add_analysis that kept one result per meal, replacing the earlier one)
add_analysis_upsert(j) ==
    /\ j \in DOMAIN jobs
    /\ jobs[j].pc = "add_analysis_insert"
    /\ analysis' = Append(RemoveMeal(analysis, jobs[j].meal_id),
                          [meal_id |-> jobs[j].meal_id, result |-> j,
                           timestamp |-> jobs[j].timestamp])
    /\ jobs' = [jobs EXCEPT ![j] = Finished([@ EXCEPT !.stored = "true"], "done")]
    /\ UNCHANGED <<meals, feedback, ws_connections, ws_table, conn, inbox, req, now>>

\* add_analysis: await self.analysis.insert_one({...})
add_analysis_insert(j) ==
    /\ j \in DOMAIN jobs
    /\ jobs[j].pc = "add_analysis_insert"
    /\ analysis' = Append(analysis, [meal_id |-> jobs[j].meal_id, result |-> j,
                                     timestamp |-> jobs[j].timestamp])
    /\ jobs' = [jobs EXCEPT ![j] = Finished([@ EXCEPT !.stored = "true"], "done")]
    /\ UNCHANGED <<meals, feedback, ws_connections, ws_table, conn, inbox, req, now>>

\* add_analysis: insert_one raises (the store is unavailable)
add_analysis_raise(j) ==
    /\ j \in DOMAIN jobs
    /\ jobs[j].pc = "add_analysis_insert"
    /\ JobRaise(j, [jobs[j] EXCEPT !.stored = "raised"])
    /\ UNCHANGED <<meals, analysis, feedback, conn, req, now>>

\* --------------------------------------------------------------- requests

IdleReq ==
    [kind |-> "", pc |-> "idle", meal_id |-> "", text |-> "", data |-> NoData,
     ts |-> 0, deleted_count |-> 0, job |-> 0, status |-> "",
     since |-> 0, meal_ids |-> {}, analyses |-> {},
     method |-> "", path |-> "", token |-> "", since_str |-> "",
     user |-> "", handler |-> ""]

Free(u) == req[u].pc \in {"idle", "done"}

Begin(kind, meal_id, text) ==
    [IdleReq EXCEPT !.kind = kind, !.meal_id = meal_id, !.text = text]

\* return web.json_response(...); the request's meal_id and text stay on
\* record with the answer
Answer(r, status) ==
    [r EXCEPT !.pc = "done", !.status = status, !.data = NoData,
              !.ts = 0, !.deleted_count = 0, !.meal_ids = {}]

\* feedback requests past their 404 check: each will create one task
Reserved ==
    Cardinality({u \in Clients : req[u].kind = "submit_feedback"
                               /\ req[u].pc \notin {"idle", "done", "dispatched"}})

\* (a handler that awaited the task itself would return only once it ended)
request_analysis_awaits_task(j) == jobs[j].pc \in {"done", "crashed"}

\* `await self.meal_service.request_analysis(meal_data)` in a handler:
\* request_analysis returns once create_task has returned the task j,
\* whatever the task does afterwards
request_analysis_returned(j) == TRUE

\* (db.meals without its unique index on meal_id)
duplicate_key_unindexed(m) == FALSE

\* create_meal: insert_one raises DuplicateKeyError, caught as `except
\* Exception: return None`, when the unique index on meal_id has the key
duplicate_key(m) == m \in DOMAIN meals

\* POST /meals: create_meal's insert_one, then the task is created
submit_meal(u, m, img) ==
    /\ Free(u)
    /\ IF img = ""
       THEN /\ req' = [req EXCEPT ![u] = Answer(Begin("submit_meal", m, ""), "400 b64_img is required")]
            /\ UNCHANGED <<meals, jobs, now>>
       ELSE IF duplicate_key(m)
       THEN /\ req' = [req EXCEPT ![u] = Answer(Begin("submit_meal", m, ""), "409 meal already exists")]
            /\ UNCHANGED <<meals, jobs, now>>
       ELSE /\ Len(jobs) + Reserved < MaxJobs
            /\ now < MaxTime
            /\ now' = now + 1
            /\ meals' = [x \in DOMAIN meals \cup {m} |->
                            IF x = m THEN [user_id |-> UserOf(u), b64_img |-> img, created_at |-> now + 1]
                            ELSE meals[x]]
            /\ jobs' = Append(jobs, NewJob([NoData EXCEPT !.meal_id = m, !.user_id = UserOf(u),
                                                          !.b64_img = img], "submit_meal"))
            /\ req' = [req EXCEPT ![u] = [Begin("submit_meal", m, "") EXCEPT
                                             !.pc = "dispatched", !.job = Len(jobs) + 1]]
    /\ UNCHANGED <<analysis, feedback, ws_connections, ws_table, conn, inbox>>

\* the handler returns {"meal_id": ..., "status": "processing"}
reply_processing(u) ==
    /\ req[u].pc = "dispatched"
    /\ request_analysis_returned(req[u].job)
    /\ req' = [req EXCEPT ![u] = Answer(@, "200 processing")]
    /\ UNCHANGED <<meals, analysis, feedback, ws_connections, ws_table, conn, inbox, jobs, now>>

\* (a handler without the `if not feedback_text` check)
feedback_text_unchecked(text) == FALSE

\* `if not feedback_text`: the text is missing or empty
feedback_text_missing(text) == text = ""

\* (a meal_data that named the user who sent the request)
request_user_id(u, m) == UserOf(u)

\* fetch_meal: "user_id": meal_doc["user_id"], the owner stored with the meal,
\* whoever sends the request
meal_doc_user_id(u, m) == meals[m].user_id

\* POST /meals/feedback: validation, then fetch_meal's meals.find_one
submit_feedback(u, m, text) ==
    /\ Free(u)
    /\ IF m = ""
       THEN req' = [req EXCEPT ![u] = Answer(Begin("submit_feedback", m, text), "400 meal_id is required")]
       ELSE IF feedback_text_missing(text)
       THEN req' = [req EXCEPT ![u] = Answer(Begin("submit_feedback", m, text), "400 feedback is required")]
       ELSE IF m \notin DOMAIN meals
       THEN req' = [req EXCEPT ![u] = Answer(Begin("submit_feedback", m, text), "404 meal not found")]
       ELSE /\ Len(jobs) + Reserved < MaxJobs
            /\ req' = [req EXCEPT ![u] =
                          [Begin("submit_feedback", m, text) EXCEPT
                              !.pc = "fetch_rest",
                              !.data = [NoData EXCEPT !.meal_id = m,
                                                      !.user_id = meal_doc_user_id(u, m),
                                                      !.b64_img = meals[m].b64_img]]]
    /\ UNCHANGED <<meals, analysis, feedback, ws_connections, ws_table, conn, inbox, jobs, now>>

\* fetch_meal: analysis.find_one(..., sort=[("timestamp", -1)]) and
\* feedback.find(..., sort=[("timestamp", -1)]); fetch_meal returns.  The two
\* reads are one step: nothing reads meal_data["latest_analysis"] afterwards
\* (analyze_meal builds its prompt from feedback_history and b64_img alone).
fetch_meal_rest(u) ==
    /\ req[u].pc = "fetch_rest"
    /\ req' = [req EXCEPT ![u] =
                  [@ EXCEPT !.pc = "add_feedback_find",
                            !.data.latest_analysis =
                                LET i == find_latest_analysis(req[u].meal_id)
                                IN IF i = 0 THEN 0 ELSE analysis[i].result,
                            !.data.feedback_history = find_feedback_history(req[u].meal_id)]]
    /\ UNCHANGED <<meals, analysis, feedback, ws_connections, ws_table, conn, inbox, jobs, now>>

\* add_feedback: meals.find_one; the document to insert takes utcnow()
add_feedback_find(u) ==
    /\ req[u].pc = "add_feedback_find"
    /\ IF req[u].meal_id \in DOMAIN meals
       THEN /\ now < MaxTime
            /\ now' = now + 1
            /\ req' = [req EXCEPT ![u] = [@ EXCEPT !.pc = "add_feedback_insert", !.ts = now + 1]]
       ELSE /\ req' = [req EXCEPT ![u] = Answer(@, "500 failed to add feedback")]
            /\ UNCHANGED now
    /\ UNCHANGED <<meals, analysis, feedback, ws_connections, ws_table, conn, inbox, jobs>>

\* (a handler that created the task without having stored the entry)
add_feedback_dispatch_only(u) ==
    /\ req[u].pc = "add_feedback_insert"
    /\ LET meal_data == [req[u].data EXCEPT !.feedback_history = <<req[u].text>> \o @]
       IN /\ jobs' = Append(jobs, NewJob(meal_data, "submit_feedback"))
          /\ req' = [req EXCEPT ![u] = [@ EXCEPT !.pc = "dispatched", !.data = meal_data,
                                                 !.job = Len(jobs) + 1]]
    /\ UNCHANGED <<meals, analysis, feedback, ws_connections, ws_table, conn, inbox, now>>

\* (a handler whose meal_data were one object per meal, shared with the tasks
\* already running for it)
add_feedback_insert_shared(u) ==
    /\ req[u].pc = "add_feedback_insert"
    /\ feedback' = Append(feedback, [meal_id |-> req[u].meal_id, feedback |-> req[u].text,
                                     timestamp |-> req[u].ts])
    /\ LET meal_data == [req[u].data EXCEPT !.feedback_history = <<req[u].text>> \o @]
           shared == [j \in DOMAIN jobs |->
                        IF jobs[j].meal_data.meal_id = req[u].meal_id
                        THEN [jobs[j] EXCEPT !.meal_data.feedback_history = <<req[u].text>> \o @]
                        ELSE jobs[j]]
       IN /\ jobs' = Append(shared, NewJob(meal_data, "submit_feedback"))
          /\ req' = [req EXCEPT ![u] = [@ EXCEPT !.pc = "dispatched", !.data = meal_data,
                                                 !.job = Len(jobs) + 1]]
    /\ UNCHANGED <<meals, analysis, ws_connections, ws_table, conn, inbox, now>>

\* add_feedback: feedback.insert_one; back in the handler the new text goes
\* to the front of meal_data["feedback_history"] and the task is created
add_feedback_insert(u) ==
    /\ req[u].pc = "add_feedback_insert"
    /\ feedback' = Append(feedback, [meal_id |-> req[u].meal_id, feedback |-> req[u].text,
                                     timestamp |-> req[u].ts])
    /\ LET meal_data == [req[u].data EXCEPT !.feedback_history = <<req[u].text>> \o @]
       IN /\ jobs' = Append(jobs, NewJob(meal_data, "submit_feedback"))
          /\ req' = [req EXCEPT ![u] = [@ EXCEPT !.pc = "dispatched", !.data = meal_data,
                                                 !.job = Len(jobs) + 1]]
    /\ UNCHANGED <<meals, analysis, ws_connections, ws_table, conn, inbox, now>>

\* DELETE /meals/{meal_id}: fetch_meal and the ownership check
delete_meal_check(u, m) ==
    /\ Free(u)
    /\ req' = [req EXCEPT ![u] =
                  IF m \notin DOMAIN meals
                  THEN Answer(Begin("delete_meal", m, ""), "404 meal not found")
                  ELSE IF meals[m].user_id # UserOf(u)
                  THEN Answer(Begin("delete_meal", m, ""), "403 unauthorized")
                  ELSE [Begin("delete_meal", m, "") EXCEPT !.pc = "delete_meals"]]
    /\ UNCHANGED <<meals, analysis, feedback, ws_connections, ws_table, conn, inbox, jobs, now>>

\* MealService.delete_meal: meals.delete_one
delete_meal_meals(u) ==
    /\ req[u].pc = "delete_meals"
    /\ LET m == req[u].meal_id
       IN /\ meals' = [x \in DOMAIN meals \ {m} |-> meals[x]]
          /\ jobs' = MarkOrphans(jobs, m)
          /\ req' = [req EXCEPT ![u] =
                        [@ EXCEPT !.pc = "delete_analysis",
                                  !.deleted_count = IF m \in DOMAIN meals THEN 1 ELSE 0]]
    /\ UNCHANGED <<analysis, feedback, ws_connections, ws_table, conn, inbox, now>>

\* MealService.delete_meal: analysis.delete_many
delete_meal_analysis(u) ==
    /\ req[u].pc = "delete_analysis"
    /\ analysis' = RemoveMeal(analysis, req[u].meal_id)
    /\ jobs' = MarkOrphans(jobs, req[u].meal_id)
    /\ req' = [req EXCEPT ![u] = [@ EXCEPT !.pc = "delete_feedback"]]
    /\ UNCHANGED <<meals, feedback, ws_connections, ws_table, conn, inbox, now>>

\* MealService.delete_meal: feedback.delete_many, then the handler answers
delete_meal_feedback(u) ==
    /\ req[u].pc = "delete_feedback"
    /\ feedback' = RemoveMeal(feedback, req[u].meal_id)
    /\ req' = [req EXCEPT ![u] =
                  Answer(@, IF req[u].deleted_count > 0 THEN "200 deleted"
                            ELSE "500 failed to delete meal")]
    /\ UNCHANGED <<meals, analysis, ws_connections, ws_table, conn, inbox, jobs, now>>

\* fetch_analyses_since(user_id, since): meals.find and the meal ids of the
\* user; `if not meal_ids: return []`
fetch_analyses_since_find(u, since) ==
    /\ Free(u)
    /\ LET r == [Begin("fetch_analyses_since", "", "") EXCEPT !.since = since]
       IN req' = [req EXCEPT ![u] =
                     IF find_user_meals(UserOf(u)) = {}
                     THEN Answer(r, "returned")
                     ELSE [r EXCEPT !.pc = "aggregate", !.meal_ids = find_user_meals(UserOf(u))]]
    /\ UNCHANGED <<meals, analysis, feedback, ws_connections, ws_table, conn, inbox, jobs, now>>

\* (a catch-up that hands every result out once, removing what it returns)
fetch_analyses_since_consume(u) ==
    /\ req[u].pc = "aggregate"
    /\ req' = [req EXCEPT ![u] =
                  Answer([@ EXCEPT !.analyses = aggregate_since(req[u].meal_ids, req[u].since)],
                         "returned")]
    /\ analysis' = SelectSeq(analysis, LAMBDA d : ~(/\ d.meal_id \in req[u].meal_ids
                                                    /\ match_since(d.timestamp, req[u].since)))
    /\ UNCHANGED <<meals, feedback, ws_connections, ws_table, conn, inbox, jobs, now>>

\* fetch_analyses_since: analysis.aggregate(pipeline); the list is returned
fetch_analyses_since_aggregate(u) ==
    /\ req[u].pc = "aggregate"
    /\ req' = [req EXCEPT ![u] =
                  Answer([@ EXCEPT !.analyses = aggregate_since(req[u].meal_ids, req[u].since)],
                         "returned")]
    /\ UNCHANGED <<meals, analysis, feedback, ws_connections, ws_table, conn, inbox, jobs, now>>

\* ------------------------------------------------- middleware and routes

Methods == {"GET", "POST", "DELETE"}
Paths == {"/meals", "/meals/feedback", "/meals/sync", "/meals/m1", "/ws"}
\* the token a request carries: of its user and in date, expired, not a
\* token of this server, or none ("")
Tokens == {"valid", "expired", "invalid", ""}
\* the `since` query parameter: absent, not ISO 8601, or a timestamp
SinceStrs == {"", "bad", "iso"}

\* request.path.startswith("/meals/")
startswith_meals(path) == path \in {"/meals/feedback", "/meals/sync", "/meals/m1"}

\* the {meal_id} of a path /meals/{meal_id}
match_info_meal_id(path) ==
    CASE path = "/meals/m1" -> "m1"
      [] path = "/meals/sync" -> "sync"
      [] path = "/meals/feedback" -> "feedback"
      [] OTHER -> ""

\* `a or b and c` is `a or (b and c)`
jwt_skipped(method, path) ==
    \/ path \in {"/auth/apple", "/auth/dev"}
    \/ (startswith_meals(path) /\ method = "GET")

\* app.add_routes: the first route that matches; "" when none does
routes(method, path) ==
    CASE method = "POST" /\ path = "/meals" -> "submit_meal"
      [] method = "POST" /\ path = "/meals/feedback" -> "submit_feedback"
      [] method = "GET" /\ path = "/meals/sync" -> "sync_analyses"
      [] method = "GET" /\ startswith_meals(path) /\ path # "/meals/sync" -> "get_meal_analysis"
      [] method = "GET" /\ path = "/ws" -> "websocket_handler"
      [] method = "DELETE" /\ startswith_meals(path) -> "delete_meal"
      [] OTHER -> ""

\* return await handler(request)
call_handler(r) ==
    IF routes(r.method, r.path) = ""
    THEN Answer(r, "404 not found")
    ELSE [r EXCEPT !.handler = routes(r.method, r.path)]

\* A request of client k arrives: jwt_middleware answers it or passes it,
\* with or without request["user"], to the handler of its route.
jwt_middleware(k, method, path, token, since_str, since) ==
    /\ Free(k)
    /\ LET r == [IdleReq EXCEPT !.method = method, !.path = path, !.token = token,
                                !.since_str = since_str, !.since = since]
       IN req' = [req EXCEPT ![k] =
                     IF jwt_skipped(method, path) THEN call_handler(r)
                     ELSE IF token = "" THEN Answer(r, "401 unauthorized")
                     ELSE IF token = "expired" THEN Answer(r, "401 token expired")
                     ELSE IF token = "invalid" THEN Answer(r, "401 invalid token")
                     ELSE call_handler([r EXCEPT !.user = UserOf(k)])]
    /\ UNCHANGED <<meals, analysis, feedback, ws_connections, ws_table, conn, inbox, jobs, now>>

\* the request of client k has been passed to handler h, which has not run yet
Routed(k, h) == req[k].pc = "idle" /\ req[k].handler = h

\* sync_analyses, up to its first await; request["user"] raises KeyError
\* when the middleware has not set it
sync_analyses(k) ==
    /\ Routed(k, "sync_analyses")
    /\ LET r == [req[k] EXCEPT !.kind = "sync_analyses"]
       IN req' = [req EXCEPT ![k] =
                     IF r.since_str = "" THEN Answer(r, "400 since parameter is required")
                     ELSE IF r.since_str = "bad" THEN Answer(r, "400 invalid timestamp format")
                     ELSE IF r.user = "" THEN Answer(r, "500 an unexpected error occurred")
                     ELSE IF find_user_meals(r.user) = {} THEN Answer(r, "200 analyses")
                     ELSE [r EXCEPT !.pc = "aggregate", !.meal_ids = find_user_meals(r.user)]]
    /\ UNCHANGED <<meals, analysis, feedback, ws_connections, ws_table, conn, inbox, jobs, now>>

\* sync_analyses: fetch_analyses_since has returned; json_response
sync_analyses_reply(k) ==
    /\ req[k].kind = "sync_analyses"
    /\ req[k].pc = "aggregate"
    /\ req' = [req EXCEPT ![k] =
                  Answer([@ EXCEPT !.analyses = aggregate_since(req[k].meal_ids, req[k].since)],
                         "200 analyses")]
    /\ UNCHANGED <<meals, analysis, feedback, ws_connections, ws_table, conn, inbox, jobs, now>>

\* get_meal_analysis: the handler of GET /meals/{meal_id}, which reads no user
get_meal_analysis_handler(k) ==
    /\ Routed(k, "get_meal_analysis")
    /\ LET r == [req[k] EXCEPT !.kind = "get_meal_analysis",
                               !.meal_id = match_info_meal_id(req[k].path)]
       IN req' = [req EXCEPT ![k] =
                     IF r.meal_id \in DOMAIN meals /\ Docs(analysis, r.meal_id) # {}
                     THEN Answer(r, "200 analysis")
                     ELSE Answer(r, "404 meal not found")]
    /\ UNCHANGED <<meals, analysis, feedback, ws_connections, ws_table, conn, inbox, jobs, now>>

\* ------------------------------------------------------------- websockets

\* The tasks suspended in notify_user's loop over the set object registered
\* for user_id.
IteratingOn(js, user_id) ==
    {i \in DOMAIN js : js[i].pc = "notify" /\ js[i].user_id = user_id /\ ~js[i].it_stale}

\* set_table_resize: the smallest power of two above four times the number of
\* elements, at least 8 slots (the value is the table's mask, its size - 1)
RECURSIVE table_mask(_, _)
table_mask(mask, used) == IF mask + 1 > 4 * used THEN mask ELSE table_mask(2 * mask + 1, used)

\* websocket_handler: a socket opens and is registered for its user.
\* self.ws_connections[user_id].add(ws) on a set a suspended notify_user is
\* iterating: the iterator is an index into the hash table.  The new element
\* takes a slot before that index (the loop will not reach it) or after it;
\* it takes a dummy slot or an unused one, and when the unused one makes the
\* table three fifths full the table is rebuilt, larger: an element keeps its
\* index or moves up by a multiple of the old size, as its hash decides.  An
\* element the loop had not reached stays ahead of the iterator; one it had
\* visited stays behind or lands ahead of it, to be visited again.  (Elements
\* that a hash collision had displaced in the old table are left out.)
ws_open(u, c) ==
    /\ conn[c].state = "none"
    /\ conn' = [conn EXCEPT ![c] = [state |-> "open", user_id |-> u]]
    /\ ws_connections' = register_ws_connection(ws_connections, u, c)
    /\ IF u \notin DOMAIN ws_connections
       THEN /\ ws_table' = [x \in DOMAIN ws_table \cup {u} |->
                               IF x = u THEN [fill |-> 1, mask |-> 7] ELSE ws_table[x]]
            /\ UNCHANGED jobs
       ELSE LET used == Cardinality(ws_connections[u]) + 1
                its == IteratingOn(jobs, u)
            IN \E unused \in (IF ws_table[u].fill >= used THEN BOOLEAN ELSE {TRUE}) :
                 LET fill == IF unused THEN ws_table[u].fill + 1 ELSE ws_table[u].fill
                     rebuilt == unused /\ fill * 5 >= ws_table[u].mask * 3
                 IN /\ ws_table' = [ws_table EXCEPT ![u] =
                                      IF rebuilt
                                      THEN [fill |-> used, mask |-> table_mask(7, used)]
                                      ELSE [fill |-> fill, mask |-> @.mask]]
                    /\ IF rebuilt
                       THEN \E passed \in [its -> SUBSET (ws_connections[u] \cup {c})] :
                               /\ \A i \in its : passed[i] \subseteq jobs[i].it_seen \cup {c}
                               /\ jobs' = [i \in DOMAIN jobs |->
                                             IF i \in its
                                             THEN [jobs[i] EXCEPT !.it_seen = passed[i]]
                                             ELSE jobs[i]]
                       ELSE LET before == {i \in its : \E d \in jobs[i].it_seen :
                                                           Slot(d) > Slot(c)}
                            IN jobs' = [i \in DOMAIN jobs |->
                                          IF i \in before
                                          THEN [jobs[i] EXCEPT !.it_seen = @ \cup {c}]
                                          ELSE jobs[i]]
    /\ UNCHANGED <<meals, analysis, feedback, inbox, req, now>>

\* the peer goes away: from now on send_json on the socket raises
ws_break(c) ==
    /\ conn[c].state = "open"
    /\ conn' = [conn EXCEPT ![c].state = "broken"]
    /\ UNCHANGED <<meals, analysis, feedback, ws_connections, ws_table, inbox, jobs, req, now>>

\* (a websocket_handler without its `finally`: the socket stays registered)
ws_close_without_finally(c) ==
    /\ conn[c].state \in {"open", "broken"}
    /\ conn' = [conn EXCEPT ![c].state = "closed"]
    /\ inbox' = [inbox EXCEPT ![c] = <<>>]
    /\ UNCHANGED <<meals, analysis, feedback, ws_connections, ws_table, jobs, req, now>>

\* websocket_handler: the message loop ends; finally: unregister
ws_close(c) ==
    /\ conn[c].state \in {"open", "broken"}
    /\ LET ws == unregister_ws_connection(ws_connections, conn[c].user_id, c)
       IN /\ ws_connections' = ws
          /\ ws_table' = [x \in DOMAIN ws |-> ws_table[x]]
          /\ jobs' = DetachIterators(jobs, ws_connections, ws)
    /\ conn' = [conn EXCEPT ![c].state = "closed"]
    /\ inbox' = [inbox EXCEPT ![c] = <<>>]
    /\ UNCHANGED <<meals, analysis, feedback, req, now>>

\* ---------------------------------------------------------- specification

Init ==
    /\ meals = <<>>
    /\ analysis = <<>>
    /\ feedback = <<>>
    /\ ws_connections = <<>>
    /\ ws_table = <<>>
    /\ conn = [c \in Conns |-> [state |-> "none", user_id |-> ""]]
    /\ inbox = [c \in Conns |-> <<>>]
    /\ jobs = <<>>
    /\ req = [u \in Clients |-> IdleReq]
    /\ now = 0

\* The actions, grouped; the parameters are the environment: who sends which
\* requests on which meals, who opens which sockets, what the analyzer returns.
Submits(SU, MS, IS) ==
    \/ \E u \in SU, m \in MS, img \in IS : submit_meal(u, m, img)
    \/ \E u \in Clients : reply_processing(u)

Feedbacks(FU, MS, TX) ==
    \/ \E u \in FU, m \in MS, text \in TX : submit_feedback(u, m, text)
    \/ \E u \in Clients : fetch_meal_rest(u)
    \/ \E u \in Clients : add_feedback_find(u)
    \/ \E u \in Clients : add_feedback_insert(u)

Deletes(DU, MS) ==
    \/ \E u \in DU, m \in MS : delete_meal_check(u, m)
    \/ \E u \in Clients : delete_meal_meals(u)
    \/ \E u \in Clients : delete_meal_analysis(u)
    \/ \E u \in Clients : delete_meal_feedback(u)

Tasks(OS) ==
    \/ \E j \in 1..MaxJobs, o \in OS : AnalyzerReturns(j, o)
    \/ \E j \in 1..MaxJobs : NotifyResume(j)
    \/ \E j \in 1..MaxJobs : add_analysis_find(j)
    \/ \E j \in 1..MaxJobs : add_analysis_insert(j)
    \/ \E j \in 1..MaxJobs : add_analysis_raise(j)

Sockets(WU, CS) ==
    \/ \E u \in WU, c \in CS : ws_open(u, c)
    \/ \E c \in CS : ws_break(c)
    \/ \E c \in CS : ws_close(c)

\* One owner, one meal id, one socket: every request and every step of a task.
Next ==
    \/ Submits({"u1"}, {"m1"}, Images \cup {""})
    \/ Feedbacks({"u1"}, {"m1", ""}, Texts \cup {""})
    \/ Deletes({"u1"}, {"m1"})
    \/ Tasks(Outcomes)
    \/ Sockets({"u1"}, {"c1"})

Spec == Init /\ [][Next]_vars

\* One meal and its first analysis, pushed to the sockets of both users.
NextFanout ==
    \/ Submits({"u1"}, {"m1"}, Images)
    \/ Tasks(Outcomes)
    \/ Sockets(Users, {"c1", "c2"})

SpecFanout == Init /\ [][NextFanout]_vars

\* u1 creates m1, sends feedback on it and holds one websocket; no DELETE
\* request is made and every request body is complete
NextPull ==
    \/ Submits({"u1"}, {"m1"}, Images)
    \/ Feedbacks({"u1"}, {"m1"}, {"f1"})
    \/ Tasks(Outcomes)
    \/ Sockets({"u1"}, {"c1"})

SpecPull == Init /\ [][NextPull]_vars

\* u1 creates m1 while u1's clients connect and disconnect: five sockets,
\* enough for the registry's set to outgrow its first hash table.  The
\* sockets connect in the order of their slots.
NextChurn ==
    \/ Submits({"u1"}, {"m1"}, Images)
    \/ \E j \in 1..MaxJobs : AnalyzerReturns(j, "ok")
    \/ \E j \in 1..MaxJobs : NotifyResume(j)
    \/ \E j \in 1..MaxJobs : add_analysis_find(j)
    \/ \E j \in 1..MaxJobs : add_analysis_insert(j)
    \/ \E k \in DOMAIN ConnOrder :
          /\ \A i \in 1..(k - 1) : conn[ConnOrder[i]].state # "none"
          /\ ws_open("u1", ConnOrder[k])
    \/ \E c \in Conns : ws_close(c)

SpecChurn == Init /\ [][NextChurn]_vars

\* u1 creates m1 and sends feedback on it while holding two websockets: two
\* jobs notify the same user
NextOrder ==
    \/ Submits({"u1"}, {"m1"}, Images)
    \/ Feedbacks({"u1"}, {"m1"}, {"f1"})
    \/ Tasks({"ok"})
    \/ Sockets({"u1"}, {"c1", "c2"})

SpecOrder == Init /\ [][NextOrder]_vars

\* Both users create and delete m1 while u2 sends feedback on it (the
\* feedback route checks no ownership), with or without a meal id and a text.
NextRace ==
    \/ Submits(Users, {"m1"}, Images)
    \/ Feedbacks({"u2"}, {"m1", ""}, {"f1", ""})
    \/ Deletes(Users, {"m1"})
    \/ \E j \in 1..MaxJobs : AnalyzerReturns(j, "ok")
    \/ \E j \in 1..MaxJobs : add_analysis_find(j)
    \/ \E j \in 1..MaxJobs : add_analysis_insert(j)

SpecRace == Init /\ [][NextRace]_vars

\* u1 connects two websockets, then creates two meals: two jobs notify the
\* same user.  A peer may go away, but no handler registers or unregisters
\* while a job runs, and the store is available.  The event loop runs every
\* task that is ready; the analyzer call is a request to another service and
\* may never return.
NextIsolated ==
    \/ jobs = <<>> /\ \E c \in {"c1", "c2"} : ws_open("u1", c)
    \/ \E c \in {"c1", "c2"} : ws_break(c)
    \/ Submits({"u1"}, MealIds, Images)
    \/ \E j \in 1..MaxJobs, o \in Outcomes : AnalyzerReturns(j, o)
    \/ \E j \in 1..MaxJobs : NotifyResume(j)
    \/ \E j \in 1..MaxJobs : add_analysis_find(j)
    \/ \E j \in 1..MaxJobs : add_analysis_insert(j)

SpecIsolated ==
    /\ Init
    /\ [][NextIsolated]_vars
    /\ \A j \in 1..MaxJobs : /\ WF_vars(NotifyResume(j))
                             /\ WF_vars(add_analysis_find(j))
                             /\ WF_vars(add_analysis_insert(j))

\* Requests of u1 with every method, path and token pass the middleware and
\* the routes before their handlers run; the handlers that read
\* request["user"] run for the user the middleware has set.
NextAuth ==
    \/ \E method \in Methods, path \in Paths, token \in Tokens :
          \E since_str \in (IF path = "/meals/sync" THEN SinceStrs ELSE {""}) :
             \E since \in (IF since_str = "iso" THEN 0..1 ELSE {0}) :
                jwt_middleware("u1", method, path, token, since_str, since)
    \/ sync_analyses("u1")
    \/ get_meal_analysis_handler("u1")
    \/ Routed("u1", "submit_meal") /\ req["u1"].user = "u1" /\ submit_meal("u1", "m1", "imgA")
    \/ reply_processing("u1")
    \/ Routed("u1", "submit_feedback") /\ \E text \in {"f1", ""} : submit_feedback("u1", "m1", text)
    \/ fetch_meal_rest("u1")
    \/ add_feedback_find("u1")
    \/ add_feedback_insert("u1")
    \/ /\ Routed("u1", "delete_meal") /\ req["u1"].user = "u1"
       /\ delete_meal_check("u1", match_info_meal_id(req["u1"].path))
    \/ delete_meal_meals("u1")
    \/ delete_meal_analysis("u1")
    \/ delete_meal_feedback("u1")
    \/ /\ Routed("u1", "websocket_handler") /\ req["u1"].user = "u1"
       /\ ws_open("u1", "c1")
    \/ ws_close("c1")

SpecAuth == Init /\ [][NextAuth]_vars

\* u1 creates m1; the model answers with a meal whose ingredients carry
\* every kind of value, and the job goes on with the typed result.
NextTyping ==
    \/ Submits({"u1"}, {"m1"}, Images)
    \/ \E j \in 1..MaxJobs : analyze_meal_ensure_typing(j)
    \/ \E j \in 1..MaxJobs : AnalyzerReturns(j, "ok")
    \/ \E j \in 1..MaxJobs : add_analysis_find(j)
    \/ \E j \in 1..MaxJobs : add_analysis_insert(j)

SpecTyping == Init /\ [][NextTyping]_vars

\* The service starts on a database that already holds u1's meal m1 and the
\* feedback entries of earlier runs: none, one or several.
Histories == UNION {[1..n -> Texts] : n \in 0..MaxHistory}

InitHistory ==
    \E h \in Histories :
        /\ meals = [m \in {"m1"} |-> [user_id |-> "u1", b64_img |-> "imgA", created_at |-> 0]]
        /\ analysis = <<>>
        /\ feedback = [i \in DOMAIN h |-> [meal_id |-> "m1", feedback |-> h[i], timestamp |-> i]]
        /\ ws_connections = <<>>
        /\ ws_table = <<>>
        /\ conn = [c \in Conns |-> [state |-> "none", user_id |-> ""]]
        /\ inbox = [c \in Conns |-> <<>>]
        /\ jobs = <<>>
        /\ req = [u \in Clients |-> IdleReq]
        /\ now = Len(h)

NextHistory ==
    \/ Feedbacks(Users, {"m1"}, Texts)
    \/ \E u \in Clients : reply_processing(u)
    \/ \E j \in 1..MaxJobs : AnalyzerReturns(j, "ok")
    \/ \E j \in 1..MaxJobs : add_analysis_find(j)
    \/ \E j \in 1..MaxJobs : add_analysis_insert(j)

SpecHistory == InitHistory /\ [][NextHistory]_vars

\* u1 creates m1 and u2 sends feedback on it while both hold websockets; no
\* meal is deleted.
NextOwner ==
    \/ Submits({"u1"}, {"m1"}, Images)
    \/ Feedbacks({"u2"}, {"m1"}, {"f1"})
    \/ \E j \in 1..MaxJobs, o \in {"ok", "error"} : AnalyzerReturns(j, o)
    \/ \E j \in 1..MaxJobs : NotifyResume(j)
    \/ \E j \in 1..MaxJobs : add_analysis_find(j)
    \/ \E j \in 1..MaxJobs : add_analysis_insert(j)
    \/ ws_open("u1", "c1")
    \/ ws_open("u2", "c2")
    \/ \E c \in {"c1", "c2"} : ws_close(c)

SpecOwner == Init /\ [][NextOwner]_vars

\* Both users create m1 and every client, u1's two among them, deletes it.
NextGuard ==
    \/ Submits(Users, {"m1"}, Images)
    \/ Deletes(Clients, {"m1"})
    \/ \E j \in 1..MaxJobs : AnalyzerReturns(j, "ok")
    \/ \E j \in 1..MaxJobs : add_analysis_find(j)
    \/ \E j \in 1..MaxJobs : add_analysis_insert(j)

SpecGuard == Init /\ [][NextGuard]_vars

\* The catch-up query on a database that nothing writes: the service starts
\* on stored meals and results of earlier runs and serves only
\* fetch_analyses_since.
StoredResults ==
    UNION {[1..n -> [meal_id : {"m1", "m2"}, timestamp : 1..MaxStamp]] : n \in 0..MaxDocs}

InitSync ==
    \E owner \in [{"m1", "m2"} -> Users \cup {""}], docs \in StoredResults :
        /\ meals = [m \in {x \in {"m1", "m2"} : owner[x] # ""} |->
                       [user_id |-> owner[m], b64_img |-> "imgA", created_at |-> 0]]
        /\ analysis = [i \in DOMAIN docs |->
                          [meal_id |-> docs[i].meal_id, result |-> i,
                           timestamp |-> docs[i].timestamp]]
        /\ feedback = <<>>
        /\ ws_connections = <<>>
        /\ ws_table = <<>>
        /\ conn = [c \in Conns |-> [state |-> "none", user_id |-> ""]]
        /\ inbox = [c \in Conns |-> <<>>]
        /\ jobs = <<>>
        /\ req = [u \in Clients |-> IdleReq]
        /\ now = MaxStamp

NextSync ==
    \/ \E u \in Users, since \in 0..MaxStamp : fetch_analyses_since_find(u, since)
    \/ \E u \in Users : fetch_analyses_since_aggregate(u)

SpecSync == InitSync /\ [][NextSync]_vars

\* ----------------------------------------------------------------- claims

Entry(i) ==
    [meal_id |-> analysis[i].meal_id, result |-> analysis[i].result,
     timestamp |-> analysis[i].timestamp]

EntriesOf(S, m) == {e \in S : e.meal_id = m}

JobsOf(m) == {j \in DOMAIN jobs : jobs[j].meal_id = m}

\* C1: persist-before-notify. Every analysis_complete event a socket has
\* received comes from a job whose result is already stored, and as long as
\* the meal has not been deleted since, GetLatestAnalysis returns a result
\* at least as recent as the event.
C1_PersistBeforeNotify ==
    \A c \in Conns : \A k \in DOMAIN inbox[c] :
        LET msg == inbox[c][k]
        IN msg.event = "analysis_complete" =>
              /\ jobs[msg.result].stored = "true"
              /\ ~jobs[msg.result].orphan =>
                    \E e \in get_meal_analysis(msg.meal_id) : e.timestamp >= msg.timestamp

\* the set the interface description gives for SyncSince(user_id, since)
SyncSinceClaimed(user_id, since) ==
    {Entry(find_latest_analysis(m)) :
        m \in {x \in DOMAIN meals :
                  /\ meals[x].user_id = user_id
                  /\ \E i \in Docs(analysis, x) : analysis[i].timestamp > since}}

\* C2: SyncSince(user, t) is exactly: one entry per meal of the user that has
\* a result newer than t, that entry being the meal's result with the
\* greatest timestamp.
C2_SyncSinceExact ==
    \A u \in Users : \A t \in Times :
        fetch_analyses_since(u, t) = SyncSinceClaimed(u, t)

\* C3: the entry SyncSince returns for a meal, for any cutoff below the
\* meal's greatest timestamp, is the result GetLatestAnalysis returns.
C3_LatestComputedIdentically ==
    \A m \in DOMAIN meals : \A t \in Times :
        \A e \in get_meal_analysis(m) :
            t < e.timestamp =>
                EntriesOf(fetch_analyses_since(meals[m].user_id, t), m) = {e}

\* C4: persistence does not depend on the push path. A job whose analyzer
\* call succeeded has, when it ends, stored its result (unless the meal was
\* deleted or the store write itself failed), whatever happened to the
\* registry and the sends.
C4_PersistIndependentOfPush ==
    \A j \in DOMAIN jobs :
        (jobs[j].pc \in {"done", "crashed"} /\ jobs[j].result = "ok" /\ ~jobs[j].orphan)
            => jobs[j].stored \in {"true", "raised"}

\* the task of job j ran its success path to the end: analyzer result usable,
\* analysis_complete issued, add_analysis returned, no exception on the way
CompletedSuccessfully(j) ==
    /\ jobs[j].pc = "done"
    /\ jobs[j].result = "ok"
    /\ jobs[j].called = <<"analysis_complete">>

\* C5: after CreateMeal, SyncSince(owner, t0) with t0 before the creation
\* time has no entry for the meal while no job for that meal id has stored
\* a result, and exactly one entry, a stored result of the meal, once the
\* job CreateMeal dispatched has completed successfully (meal not deleted).
C5_CreateThenSync ==
    \A m \in DOMAIN meals : \A t0 \in Times :
        t0 < meals[m].created_at =>
            LET E == EntriesOf(fetch_analyses_since(meals[m].user_id, t0), m)
            IN /\ (\A j \in JobsOf(m) : jobs[j].stored # "true") => E = {}
               /\ \A j \in JobsOf(m) :
                     ( /\ jobs[j].origin = "submit_meal"
                       /\ CompletedSuccessfully(j)
                       /\ ~jobs[j].orphan )
                     => /\ jobs[j].stored = "true"
                        /\ Cardinality(E) = 1
                        /\ \A e \in E : \E i \in Docs(analysis, m) : e = Entry(i)
                        /\ Cardinality(Docs(analysis, m)) = 1 =>
                              E = {[meal_id |-> m, result |-> j,
                                    timestamp |-> analysis[Max(Docs(analysis, m))].timestamp]}

C5_Witness ==
    \E m \in DOMAIN meals : \E j \in JobsOf(m) :
        /\ jobs[j].origin = "submit_meal"
        /\ CompletedSuccessfully(j)
        /\ ~jobs[j].orphan
        /\ EntriesOf(fetch_analyses_since(meals[m].user_id, 0), m)
              = {[meal_id |-> m, result |-> j, timestamp |-> meals[m].created_at + 1]}

\* C6: a re-analysis result is recoverable by pull. If a stored result of a
\* meal (time t1) has exactly one newer stored result, produced by a job a
\* feedback request dispatched (time t2 > t1), SyncSince(owner, t1) returns
\* exactly one entry for the meal: the t2 result.
C6_FeedbackResultRecoverable ==
    \A m \in DOMAIN meals : \A i1, i2 \in Docs(analysis, m) :
        ( /\ analysis[i2].timestamp > analysis[i1].timestamp
          /\ jobs[analysis[i2].result].origin = "submit_feedback"
          /\ \A k \in Docs(analysis, m) :
                analysis[k].timestamp > analysis[i1].timestamp => k = i2 )
        => EntriesOf(fetch_analyses_since(meals[m].user_id, analysis[i1].timestamp), m)
              = {Entry(i2)}

C6_Witness ==
    \E m \in DOMAIN meals : \E i1, i2 \in Docs(analysis, m) :
        /\ meals[m].user_id \notin DOMAIN ws_connections
        /\ \E c \in Conns : conn[c].state = "closed" /\ conn[c].user_id = meals[m].user_id
        /\ jobs[analysis[i1].result].origin = "submit_meal"
        /\ jobs[analysis[i2].result].origin = "submit_feedback"
        /\ analysis[i2].timestamp > analysis[i1].timestamp
        /\ EntriesOf(fetch_analyses_since(meals[m].user_id, analysis[i1].timestamp), m)
              = {Entry(i2)}

\* C7: a job never terminates silently. No exception leaves the task, and a
\* job that has ended issued analysis_complete if it stored its result and
\* ended on analysis_failed otherwise.
C7_NeverSilent ==
    \A j \in DOMAIN jobs :
        /\ jobs[j].pc # "crashed"
        /\ jobs[j].pc = "done" =>
              /\ jobs[j].called # <<>>
              /\ jobs[j].stored = "true" => jobs[j].called = <<"analysis_complete">>
              /\ jobs[j].stored # "true" =>
                    jobs[j].called[Len(jobs[j].called)] = "analysis_failed"

C9_FireAndForget ==
    \A u \in Users :
        /\ req[u].pc = "dispatched" => ENABLED reply_processing(u)
        /\ (req[u].pc = "done" /\ req[u].job # 0) => req[u].status = "200 processing"

C9_Witness ==
    \E u \in Users :
        /\ req[u].pc = "done"
        /\ req[u].job # 0
        /\ req[u].status = "200 processing"
        /\ jobs[req[u].job].pc = "analyzing"

\* C10: at most one job per meal id is running its analyzer call.
C10_SingleFlight ==
    \A m \in MealIds :
        Cardinality({j \in JobsOf(m) : jobs[j].pc = "analyzing"}) <= 1

\* ------------------------------------------------------ claims on Notify

Count(seq, m) == Cardinality({k \in DOMAIN seq : seq[k] = m})

\* in this step the notify_user call of job j returns to analyze_task
NotifyReturns(j) ==
    /\ jobs[j].pc = "notify"
    /\ jobs'[j].pc \in {"add_analysis_find", "done"}
    /\ jobs'[j].called = jobs[j].called

\* in this step the notify_user call of job j ends with an exception
NotifyRaises(j) ==
    /\ jobs[j].pc = "notify"
    /\ \/ jobs'[j].pc = "crashed"
       \/ Len(jobs'[j].called) > Len(jobs[j].called)

\* the sockets registered for the user when the call of job j started that
\* are still registered and healthy now that it ends
StayedLive(j) ==
    {c \in jobs[j].it_start :
        /\ jobs[j].user_id \in DOMAIN ws_connections'
        /\ c \in ws_connections'[jobs[j].user_id]
        /\ conn'[c].state = "open"}

\* C11: when a Notify call returns, every connection that was registered for
\* the user when it started and stayed registered and healthy has received
\* the message exactly once, and no socket ever holds a message of a meal of
\* another user.
C11_NotifyExactlyOnce ==
    [][ /\ \A j \in DOMAIN jobs :
              NotifyReturns(j) =>
                  \A c \in StayedLive(j) : Count(inbox'[c], Message(j, jobs[j])) = 1
        /\ \A c \in Conns : \A k \in DOMAIN inbox'[c] :
              \E j \in DOMAIN jobs' : /\ jobs'[j].meal_id = inbox'[c][k].meal_id
                                      /\ jobs'[j].user_id = conn'[c].user_id
      ]_vars

\* C12: a send that fails during a Notify call does not fail the call and
\* does not stop delivery: a call in which a send failed does not end with an
\* exception, and when it ends every other connection of the user that was
\* registered and healthy throughout has received the message.
C12_FailedSendIsContained ==
    [][ \A j \in DOMAIN jobs :
            ((NotifyReturns(j) \/ NotifyRaises(j)) /\ jobs[j].dead # {}) =>
                /\ ~NotifyRaises(j)
                /\ \A c \in StayedLive(j) : Count(inbox'[c], Message(j, jobs[j])) >= 1
      ]_vars

\* C13: a connection whose send failed during a Notify call is not in the
\* registry when that call returns, and no later Notify call attempts a send
\* on it (a socket is registered once, so it is never registered again).
C13_DeadConnectionDropped ==
    [][ \A j \in DOMAIN jobs :
            /\ NotifyReturns(j) =>
                  \A c \in jobs[j].dead :
                      \A u \in DOMAIN ws_connections' : c \notin ws_connections'[u]
            /\ jobs'[j].was_dead \cap jobs'[j].dead = {}
      ]_vars

\* in this step job j calls notify_user
NotifyCalled(j) ==
    /\ j \in DOMAIN jobs
    /\ Len(jobs'[j].called) > Len(jobs[j].called)

\* C14: Notify for a user with no registered connection is a no-op: the call
\* returns at once to the code after it, nothing is sent, registry and
\* stores are unchanged; and a message reaches a socket only through a send
\* of a call that is running and finds the socket registered, so a socket
\* registered later never receives the message of that call.
C14_NotifyNobodyIsNoOp ==
    [][ /\ \A j \in DOMAIN jobs' :
              (NotifyCalled(j) /\ jobs[j].user_id \notin DOMAIN ws_connections) =>
                  /\ inbox' = inbox
                  /\ ws_connections' = ws_connections
                  /\ <<meals', analysis', feedback'>> = <<meals, analysis, feedback>>
                  /\ jobs'[j].pc =
                        IF jobs'[j].called[Len(jobs'[j].called)] = "analysis_complete"
                        THEN "add_analysis_find" ELSE "done"
        /\ \A c \in Conns :
              (inbox'[c] # inbox[c] /\ inbox'[c] # <<>>) =>
                  \E j \in DOMAIN jobs' :
                      /\ jobs'[j].pc = "notify"
                      /\ jobs'[j].user_id \in DOMAIN ws_connections
                      /\ c \in ws_connections[jobs'[j].user_id]
                      /\ inbox'[c] = Append(inbox[c], Message(j, jobs'[j]))
      ]_vars

C14_Witness ==
    \E j \in DOMAIN jobs : \E c \in Conns :
        /\ jobs[j].pc = "done"
        /\ jobs[j].called = <<"analysis_complete">>
        /\ conn[c].state = "open"
        /\ conn[c].user_id = jobs[j].user_id
        /\ inbox[c] = <<>>
        /\ \A d \in Conns \ {c} : conn[d].state = "none"

\* C17: the registry holds exactly the sockets that were registered and not
\* unregistered, each under its own user, and no user id maps to an empty
\* set: the entry goes with its last socket.
C17_RegistryWellFormed ==
    /\ \A u \in DOMAIN ws_connections :
          /\ ws_connections[u] # {}
          /\ \A c \in ws_connections[u] :
                conn[c].user_id = u /\ conn[c].state \in {"open", "broken"}
    /\ \A c \in Conns :
          /\ conn[c].state = "open" =>
                /\ conn[c].user_id \in DOMAIN ws_connections
                /\ c \in ws_connections[conn[c].user_id]
          /\ conn[c].state = "closed" =>
                \A u \in DOMAIN ws_connections : c \notin ws_connections[u]

C17_Witness ==
    \E c, d \in Conns :
        /\ conn[c].state = "closed"
        /\ conn[c].user_id \notin DOMAIN ws_connections
        /\ conn[d].state = "open"
        /\ ws_connections[conn[d].user_id] = {d}

\* C15: a Register or Unregister that runs while a Notify call for the same
\* user is suspended at a send does not make the call raise, and when the
\* call returns every connection that stayed registered and healthy
\* throughout has received the message.
C15_NotifySurvivesRegistryChange ==
    [][ \A j \in DOMAIN jobs :
            /\ ~NotifyRaises(j)
            /\ NotifyReturns(j) =>
                  \A c \in StayedLive(j) : Count(inbox'[c], Message(j, jobs[j])) >= 1
      ]_vars

\* C16: per-connection ordering. utcnow() is read in the atomic block that
\* issues the analysis_complete Notify call, so these calls are issued in the
\* order of their timestamps: every socket holds its analysis_complete
\* messages in increasing timestamp order.
C16_PerConnectionOrder ==
    \A c \in Conns : \A k1, k2 \in DOMAIN inbox[c] :
        ( /\ k1 < k2
          /\ inbox[c][k1].event = "analysis_complete"
          /\ inbox[c][k2].event = "analysis_complete" )
        => inbox[c][k1].timestamp < inbox[c][k2].timestamp

\* ------------------------------------------------------ claims on feedback

\* the feedback request of u is answered in this step
FeedbackAnswered(u) ==
    /\ req'[u] # req[u]
    /\ req'[u].kind = "submit_feedback"
    /\ req'[u].pc = "done"

\* this step creates a re-analysis task
FeedbackDispatched ==
    /\ Len(jobs') > Len(jobs)
    /\ jobs'[Len(jobs')].origin = "submit_feedback"

\* C18: a feedback request on a meal id that does not exist is answered
\* "404 meal not found", appends no feedback entry and creates no task, also
\* when the meal is deleted while the request is being handled: a step that
\* appends a feedback entry or creates a re-analysis task finds the meal in
\* db.meals, and a request that ends without a task while the meal is absent
\* ends with 404 (or with the 400 of an incomplete body).
C18_FeedbackOnMissingMeal ==
    [][\A u \in Users :
          /\ (/\ FeedbackAnswered(u)
              /\ req'[u].job = 0
              /\ req'[u].meal_id \notin DOMAIN meals)
                => req'[u].status \in {"404 meal not found", "400 meal_id is required",
                                       "400 feedback is required"}
          /\ (/\ req[u].kind = "submit_feedback"
              /\ req[u].pc = "add_feedback_insert"
              /\ (Len(feedback') > Len(feedback) \/ FeedbackDispatched))
                => req[u].meal_id \in DOMAIN meals]_vars

\* C19: a feedback request whose text is empty or missing is answered 400 in
\* the step it arrives in, before any read or write of a store and before any
\* task is created: db.meals, db.feedback, db.analysis and the tasks are as
\* they were, and no feedback request is ever in flight with an empty text.
C19_EmptyFeedbackRejected ==
    [][\A u \in Users :
          /\ (/\ Free(u)
              /\ req'[u] # req[u]
              /\ req'[u].kind = "submit_feedback"
              /\ req'[u].text = "")
                => /\ req'[u].pc = "done"
                   /\ req'[u].status \in {"400 feedback is required", "400 meal_id is required"}
                   /\ UNCHANGED <<meals, feedback, analysis, jobs>>
          /\ (req'[u].kind = "submit_feedback" /\ req'[u].pc \notin {"idle", "done"})
                => req'[u].text # ""]_vars

C19_Witness ==
    \E u \in Users :
        /\ req[u].kind = "submit_feedback"
        /\ req[u].meal_id \in DOMAIN meals
        /\ req[u].text = ""
        /\ req[u].status = "400 feedback is required"

\* C20: the task created by an accepted feedback request quotes, in the
\* analyzer's prompt, the text that request submitted, whatever the number of
\* feedback entries the meal already had.
C20_AnalyzerGetsNewFeedback ==
    \A u \in Users :
        (/\ req[u].kind = "submit_feedback"
         /\ req[u].pc = "dispatched"
         /\ jobs[req[u].job].pc = "analyzing")
            => jobs[req[u].job].latest_feedback = req[u].text

Range(seq) == {seq[i] : i \in DOMAIN seq}

\* the delete request that removes the documents of meal_id from coll
\* completes that removal in this step
DeleteStep(pc, meal_id) ==
    \E u \in Clients : /\ req[u].kind = "delete_meal"
                     /\ req[u].pc = pc
                     /\ req[u].meal_id = meal_id
                     /\ req'[u].pc # pc

\* C21: an accepted feedback request has stored its entry when it creates the
\* re-analysis task and before it answers "processing": the step that creates
\* the task is the step that appends exactly that request's entry, one entry
\* and one task; the request answers "processing" only with its task created;
\* no other step of a feedback request adds an entry or a task; and a stored
\* entry stays until a delete request removes the feedback of its meal.
C21_FeedbackPersistedBeforeDispatch ==
    [][/\ \A u \in Users :
             (Free(u) /\ req'[u] # req[u] /\ req'[u].kind = "submit_feedback") =>
                /\ UNCHANGED <<feedback, jobs>>
                /\ req'[u].status # "200 processing"
       /\ \A u \in Users :
             (req[u].kind = "submit_feedback" /\ ~Free(u) /\ req'[u] # req[u]) =>
                IF req[u].pc = "add_feedback_insert"
                THEN /\ feedback' = Append(feedback, [meal_id |-> req[u].meal_id,
                                                      feedback |-> req[u].text,
                                                      timestamp |-> req[u].ts])
                     /\ Len(jobs') = Len(jobs) + 1
                     /\ jobs'[Len(jobs')].origin = "submit_feedback"
                     /\ jobs'[Len(jobs')].meal_id = req[u].meal_id
                     /\ req'[u].job = Len(jobs')
                     /\ req'[u].pc = "dispatched"
                ELSE /\ Len(jobs') = Len(jobs)
                     /\ Len(feedback') <= Len(feedback)
                     /\ (req'[u].kind = "submit_feedback" /\ req'[u].status = "200 processing")
                           => req[u].pc = "dispatched" /\ req[u].job \in DOMAIN jobs
       /\ FeedbackDispatched => \E u \in Users : /\ req[u].kind = "submit_feedback"
                                                 /\ req[u].pc = "add_feedback_insert"
                                                 /\ req'[u].pc = "dispatched"
       /\ \A i \in DOMAIN feedback :
             \/ feedback[i] \in Range(feedback')
             \/ DeleteStep("delete_feedback", feedback[i].meal_id)]_vars

C21_Witness ==
    \E u \in Users :
        /\ req[u].kind = "submit_feedback"
        /\ req[u].status = "200 processing"
        /\ req[u].job \in DOMAIN jobs
        /\ jobs[req[u].job].origin = "submit_feedback"
        /\ \E i \in DOMAIN feedback : /\ feedback[i].meal_id = req[u].meal_id
                                      /\ feedback[i].feedback = req[u].text

InFlight(j) == jobs[j].pc \notin {"done", "crashed"}

\* C22: a task works on the meal_data it was created with: while it runs, no
\* step (in particular no later feedback on the same meal) changes its
\* meal_data or the feedback its prompt quotes; and every feedback entry that
\* is stored comes with a task of its own, whose meal_data starts with that
\* entry's text.
C22_JobKeepsItsSnapshot ==
    [][/\ \A j \in DOMAIN jobs :
             InFlight(j) =>
                \/ jobs'[j].pc \in {"done", "crashed"}
                \/ /\ jobs'[j].meal_data = jobs[j].meal_data
                   /\ jobs'[j].latest_feedback = jobs[j].latest_feedback
       /\ Len(feedback') > Len(feedback) =>
             /\ Len(feedback') = Len(feedback) + 1
             /\ Len(jobs') = Len(jobs) + 1
             /\ jobs'[Len(jobs')].origin = "submit_feedback"
             /\ jobs'[Len(jobs')].meal_id = feedback'[Len(feedback')].meal_id
             /\ jobs'[Len(jobs')].meal_data.feedback_history[1]
                   = feedback'[Len(feedback')].feedback]_vars

\* a task is running on a snapshot that lacks an entry stored since, and the
\* later feedback has a task of its own
C22_Witness ==
    \E i, j \in DOMAIN jobs :
        /\ i < j
        /\ InFlight(i) /\ InFlight(j)
        /\ jobs[i].origin = "submit_feedback" /\ jobs[j].origin = "submit_feedback"
        /\ jobs[i].meal_id = jobs[j].meal_id
        /\ Len(jobs[i].meal_data.feedback_history) < Cardinality(Docs(feedback, jobs[i].meal_id))
        /\ Len(jobs[i].meal_data.feedback_history) < Len(jobs[j].meal_data.feedback_history)

\* ------------------------------------------------------- claims on meals

\* a POST /meals request of u arrives (and create_meal's insert_one runs) in
\* this step
CreateArrives(u) ==
    /\ Free(u)
    /\ req'[u] # req[u]
    /\ req'[u].kind = "submit_meal"

\* C23: creating a meal whose id already exists is answered "409 meal already
\* exists", leaves the stored meal (owner, image, creation time) as it was
\* and creates no task; a create request that finds no meal of that id stores
\* it for its user and creates exactly one task.  Of the create requests that
\* race for one id, only the one that stores the meal gets a task: a stored
\* meal never has two live tasks created by POST /meals.
C23_CreateConflict ==
    [][\A u \in Users :
          CreateArrives(u) =>
             LET m == req'[u].meal_id
             IN IF m \in DOMAIN meals
                THEN /\ req'[u].status \in {"409 meal already exists", "400 b64_img is required"}
                     /\ req'[u].pc = "done"
                     /\ UNCHANGED <<meals, jobs>>
                ELSE \/ /\ req'[u].status = "400 b64_img is required"
                        /\ UNCHANGED <<meals, jobs>>
                     \/ /\ req'[u].pc = "dispatched"
                        /\ m \in DOMAIN meals'
                        /\ meals'[m].user_id = u
                        /\ Len(jobs') = Len(jobs) + 1
                        /\ jobs'[Len(jobs')].origin = "submit_meal"
                        /\ jobs'[Len(jobs')].meal_id = m
                        /\ \A j \in DOMAIN jobs :
                              jobs[j].meal_id = m /\ jobs[j].origin = "submit_meal"
                                 => jobs[j].orphan]_vars

\* u was refused the id that the other user's meal holds
C23_Witness ==
    \E u \in Users :
        /\ req[u].kind = "submit_meal"
        /\ req[u].status = "409 meal already exists"
        /\ req[u].meal_id \in DOMAIN meals
        /\ meals[req[u].meal_id].user_id # u
        /\ Cardinality({j \in DOMAIN jobs : jobs[j].origin = "submit_meal"}) = 1

\* a DELETE request has removed meal_id from db.meals and has not finished
DeleteInFlight(meal_id) ==
    \E u \in Clients : /\ req[u].kind = "delete_meal"
                     /\ req[u].meal_id = meal_id
                     /\ req[u].pc \in {"delete_analysis", "delete_feedback"}

NoJobFault == \A j \in DOMAIN jobs : jobs[j].pc # "crashed"

\* task j belongs to a meal that has been deleted: a later POST /meals has
\* stored a meal of the same id again
OfDeletedMeal(j) ==
    \E k \in DOMAIN jobs : /\ k > j
                            /\ jobs[k].origin = "submit_meal"
                            /\ jobs[k].meal_id = jobs[j].meal_id

\* C24: deleting a meal while one of its tasks runs never makes the task end
\* with an exception, wherever the deletion lands, and once the deletion has
\* completed fetch_analyses_since returns to the meal's owner, for no `since`,
\* a result of a task of the deleted meal.
C24_DeleteRacesJob ==
    /\ NoJobFault
    /\ \A u \in Users : \A t \in Times :
          \A e \in fetch_analyses_since(u, t) :
             (OfDeletedMeal(e.result) /\ jobs[e.result].user_id = u)
                => DeleteInFlight(e.meal_id)

\* C25: fetch_analyses_since only reads: no step of it changes db.meals,
\* db.analysis, db.feedback, the registry or the tasks; and what it returns is
\* a function of the user, of `since` and of the store alone, so that two
\* calls with the same arguments and no write between them return the same
\* entries.
C25_SyncReadOnlyIdempotent ==
    [][\A u \in Users :
          (req'[u] # req[u] /\ req'[u].kind = "fetch_analyses_since") =>
             /\ UNCHANGED <<meals, analysis, feedback, ws_connections, ws_table,
                            conn, inbox, jobs>>
             /\ req'[u].pc = "done" =>
                   req'[u].analyses = fetch_analyses_since(u, req'[u].since)]_vars

\* both users hold the answer to a call, one of them a non-empty one
C25_Witness ==
    /\ \A u \in Users : req[u].kind = "fetch_analyses_since" /\ req[u].pc = "done"
    /\ \E u \in Users : req[u].analyses # {}

\* C26: a stored meal keeps its owner, its image and its creation time for as
\* long as it is stored: no step changes the record of a meal id that is in
\* db.meals before and after the step, and only the delete_one of a DELETE
\* request for that id takes a meal out of db.meals.
C26_MealImmutable ==
    [][\A m \in DOMAIN meals :
          IF m \in DOMAIN meals'
          THEN meals'[m] = meals[m]
          ELSE DeleteStep("delete_meals", m)]_vars

\* a meal older than a refused POST /meals for its id and than a feedback
\* entry and a stored result of its own
C26_Witness ==
    \E m \in DOMAIN meals :
        /\ \E u \in Users : /\ req[u].kind = "submit_meal"
                            /\ req[u].meal_id = m
                            /\ req[u].status = "409 meal already exists"
        /\ \E i \in DOMAIN feedback : /\ feedback[i].meal_id = m
                                      /\ feedback[i].timestamp > meals[m].created_at
        /\ \E i \in DOMAIN analysis : /\ analysis[i].meal_id = m
                                      /\ analysis[i].timestamp > meals[m].created_at

\* ------------------------------------------------------- claims on results

ResultsOf(j) == {i \in DOMAIN analysis : analysis[i].result = j}

\* C27: stored results are append-only.  A step leaves db.analysis as it is,
\* or appends one result, that of a task at its insert_one, for the task's
\* meal and with the task's timestamp, or is the delete_many of a DELETE
\* request, which removes the results of that meal and no other.  A task
\* stores at most one result, and a task whose add_analysis returned True has
\* exactly one result stored until its meal is deleted.
C27_ResultsAppendOnly ==
    /\ [][\/ analysis' = analysis
          \/ \E j \in DOMAIN jobs :
                /\ jobs[j].pc = "add_analysis_insert"
                /\ jobs'[j].stored = "true"
                /\ analysis' = Append(analysis, [meal_id |-> jobs[j].meal_id, result |-> j,
                                                 timestamp |-> jobs[j].timestamp])
          \/ \E m \in MealIds :
                /\ DeleteStep("delete_analysis", m)
                /\ analysis' = RemoveMeal(analysis, m)]_vars
    /\ [](\A j \in DOMAIN jobs :
             /\ Cardinality(ResultsOf(j)) <= 1
             /\ (jobs[j].stored = "true" /\ ~jobs[j].orphan)
                   => Cardinality(ResultsOf(j)) = 1)

\* the meal's first result is still stored, unaltered, next to a later one
C27_Witness ==
    \E i, k \in DOMAIN analysis :
        /\ i < k
        /\ analysis[i].meal_id = analysis[k].meal_id
        /\ analysis[i].result # analysis[k].result
        /\ jobs[analysis[i].result].stored = "true"
        /\ jobs[analysis[k].result].stored = "true"

\* C28: a task issues at most one terminal event: never an analysis_complete
\* and an analysis_failed for the same run, also when add_analysis fails or
\* raises after the analyzer has succeeded.
C28_OneTerminalEvent ==
    \A j \in DOMAIN jobs :
        /\ Len(jobs[j].called) <= 1
        /\ ~({"analysis_complete", "analysis_failed"} \subseteq Range(jobs[j].called))

\* C29: every analysis_complete event is the event of a stored result: a task
\* that has issued analysis_complete and has ended has stored its result
\* (add_analysis returned True), and a message a socket received carries the
\* meal id and the timestamp of the result its task stored.
C29_CompleteMeansStored ==
    /\ \A j \in DOMAIN jobs :
          (jobs[j].pc \in {"done", "crashed"} /\ "analysis_complete" \in Range(jobs[j].called))
             => jobs[j].stored = "true"
    /\ \A c \in Conns : \A k \in DOMAIN inbox[c] :
          inbox[c][k].event = "analysis_complete" =>
             \A i \in ResultsOf(inbox[c][k].result) :
                /\ analysis[i].meal_id = inbox[c][k].meal_id
                /\ analysis[i].timestamp = inbox[c][k].timestamp

\* every request has been answered and every task has ended
Quiescent ==
    /\ \A u \in Clients : Free(u)
    /\ \A j \in DOMAIN jobs : ~InFlight(j)

\* C30: deletion cascades, and storing for a missing meal is a no-op: a task
\* whose add_analysis returned False has stored nothing, and once every
\* request and every task has finished (those that overlapped a deletion
\* too) db.analysis and db.feedback hold no document of a meal id that is
\* not in db.meals, so that a meal created later under that id starts with no
\* result and no feedback.
C30_DeleteCascades ==
    /\ \A j \in DOMAIN jobs : jobs[j].stored = "false" => ResultsOf(j) = {}
    /\ Quiescent =>
          \A m \in MealIds \ DOMAIN meals :
             /\ Docs(analysis, m) = {}
             /\ Docs(feedback, m) = {}

\* ------------------------------------------------ claims on access and users

\* C31: the events about a meal reach its owner only: every message a socket
\* has received names a meal whose stored owner is the user the socket was
\* registered under, also when the task was created by another user's
\* feedback request.
C31_EventsReachOwnerOnly ==
    \A c \in Conns : \A k \in DOMAIN inbox[c] :
        /\ inbox[c][k].meal_id \in DOMAIN meals
        /\ conn[c].user_id = meals[inbox[c][k].meal_id].user_id

\* the owner's socket has received the result of the task that u2's feedback
\* created, and u2's socket, open all along, has received nothing
C31_Witness ==
    \E j \in DOMAIN jobs :
        /\ jobs[j].origin = "submit_feedback"
        /\ req["u2"].kind = "submit_feedback" /\ req["u2"].job = j
        /\ \E k \in DOMAIN inbox["c1"] : inbox["c1"][k].result = j
        /\ conn["c1"].user_id = "u1"
        /\ conn["c2"].state = "open" /\ conn["c2"].user_id = "u2"
        /\ inbox["c2"] = <<>>

\* C32: deleting is the owner's: a DELETE request for a meal of another user
\* is answered "403 unauthorized", one for a missing meal id "404 meal not
\* found", and neither changes a store; and no step of a DELETE request
\* removes the meal, a result or a feedback entry of a meal that is stored
\* for another user than the one who sent the request.
C32_DeleteOwnerOnly ==
    [][\A k \in Clients :
          /\ (Free(k) /\ req'[k] # req[k] /\ req'[k].kind = "delete_meal") =>
                LET m == req'[k].meal_id
                IN /\ m \notin DOMAIN meals =>
                         /\ req'[k].status = "404 meal not found"
                         /\ UNCHANGED <<meals, analysis, feedback>>
                   /\ (m \in DOMAIN meals /\ meals[m].user_id # UserOf(k)) =>
                         /\ req'[k].status = "403 unauthorized"
                         /\ UNCHANGED <<meals, analysis, feedback>>
          /\ (/\ req[k].kind = "delete_meal"
              /\ req'[k] # req[k]
              /\ <<meals, analysis, feedback>>' # <<meals, analysis, feedback>>
              /\ req[k].meal_id \in DOMAIN meals)
                => meals[req[k].meal_id].user_id = UserOf(k)]_vars

Registered(c) == {u \in DOMAIN ws_connections : c \in ws_connections[u]}

\* C33: a socket is in the registry during the life of its websocket_handler:
\* a live socket is registered, under the user of its token and under no
\* other; a socket whose handler has not started or has returned is
\* registered under nobody, also while a notify_user for its user is under
\* way; a socket whose peer has gone and whose handler has not yet returned
\* is registered under its user or already pruned.
C33_RegisteredWhileHandled ==
    \A c \in Conns :
        /\ conn[c].state = "open" => Registered(c) = {conn[c].user_id}
        /\ conn[c].state = "broken" => Registered(c) \subseteq {conn[c].user_id}
        /\ conn[c].state \in {"none", "closed"} => Registered(c) = {}

\* a handler has returned while a notify_user that started with its socket
\* in the set is still under way
C33_Witness ==
    \E c \in Conns : \E j \in DOMAIN jobs :
        /\ conn[c].state = "closed"
        /\ jobs[j].pc = "notify"
        /\ jobs[j].user_id = conn[c].user_id
        /\ c \in jobs[j].it_start
        /\ Registered(c) = {}

\* what the registry holds for a user: whether the key exists, and its set
ConnectionSet(ws, user_id) ==
    <<user_id \in DOMAIN ws, IF user_id \in DOMAIN ws THEN ws[user_id] ELSE {}>>

\* a step of notify_user run by job j: its call, one send, or its return
NotifyStep(j) ==
    /\ jobs[j].pc \in {"analyzing", "notify"}
    /\ \/ jobs'[j].pc # jobs[j].pc
       \/ jobs'[j].it_seen # jobs[j].it_seen
       \/ jobs'[j].called # jobs[j].called

\* C34: registering or unregistering a socket of one user and a step of
\* notify_user for one user, its pruning of dead sockets included, leave the
\* connection set of every other user as it was; a step of notify_user
\* leaves the three collections of the store as they were.
C34_RegistryFrame ==
    [][/\ \A c \in Conns : conn'[c] # conn[c] =>
             \A u \in Users \ {conn'[c].user_id} :
                 ConnectionSet(ws_connections', u) = ConnectionSet(ws_connections, u)
       /\ \A j \in DOMAIN jobs : NotifyStep(j) =>
             /\ \A u \in Users \ {jobs[j].user_id} :
                   ConnectionSet(ws_connections', u) = ConnectionSet(ws_connections, u)
             /\ UNCHANGED <<meals, analysis, feedback>>]_vars

\* notify_user has pruned a dead socket of u1 while u2 holds a socket
C34_Witness ==
    \E c, d \in Conns : \E j \in DOMAIN jobs :
        /\ conn[c].state = "broken" /\ conn[c].user_id = "u1" /\ Registered(c) = {}
        /\ conn[d].state = "open" /\ conn[d].user_id = "u2" /\ Registered(d) = {"u2"}
        /\ jobs[j].user_id = "u1"
        /\ jobs[j].called # <<>>
        /\ jobs[j].pc # "notify"

\* the task of job j has ended, normally or by an exception
Ended(j) == j \in DOMAIN jobs /\ jobs[j].pc \in {"done", "crashed"}

\* every other job failed, raised, or is still inside its analyzer call
OthersFailOrHang(j) ==
    \A i \in DOMAIN jobs \ {j} : jobs[i].result \in {"error", "none", "raise", "pending"}

C35_Isolated ==
    /\ \A j \in DOMAIN jobs :
          (jobs[j].result = "ok" /\ OthersFailOrHang(j)) =>
              /\ jobs[j].pc # "crashed"
              /\ "analysis_failed" \notin Range(jobs[j].called)
              /\ jobs[j].pc = "done" => jobs[j].stored = "true"
    /\ \A c \in {"c3"} : conn[c].state = "none" => ENABLED ws_open("u1", c)
    /\ \A c \in Conns : conn[c].state \in {"open", "broken"} => ENABLED ws_close(c)
    /\ \A k \in Clients : Free(k) => ENABLED fetch_analyses_since_find(k, 0)

C35_Finishes ==
    \A j \in 1..MaxJobs :
        (j \in DOMAIN jobs /\ jobs[j].pc # "analyzing") ~> Ended(j)

\* C35: jobs are isolated.  While every other job fails, raises or stays in
\* its analyzer call, a job whose analyzer call succeeds notifies
\* analysis_complete only, persists its result and ends normally; whatever
\* the jobs do, a websocket can register and unregister and a sync can start;
\* and once its analyzer call has returned, every job ends.
C35_JobsIsolated == []C35_Isolated /\ C35_Finishes

\* the handlers behind the JWT check
Protected == {"submit_meal", "submit_feedback", "delete_meal", "sync_analyses",
              "websocket_handler"}

\* C36: a request reaches submit_meal, submit_feedback, delete_meal,
\* sync_analyses or the websocket handler only with a valid token and with
\* request["user"] set to the token's user; a GET /meals/sync with a valid
\* token and a valid `since` reaches sync_analyses and is not answered with
\* an internal error.
C36_HandlersBehindJwt ==
    \A k \in Clients :
        /\ req[k].handler \in Protected =>
              (req[k].token = "valid" /\ req[k].user = UserOf(k))
        /\ (/\ req[k].method = "GET" /\ req[k].path = "/meals/sync"
            /\ req[k].token = "valid" /\ req[k].since_str = "iso") =>
              /\ req[k].handler = "sync_analyses"
              /\ req[k].pc = "done" => req[k].status = "200 analyses"

\* a decimal literal: digits, then possibly a point and digits
IsLiteral(l) ==
    /\ l # <<>>
    /\ isdigit(l[1]) /\ isdigit(l[Len(l)])
    /\ \A i \in DOMAIN l : isdigit(l[i]) \/ l[i] = "."
    /\ Cardinality({i \in DOMAIN l : l[i] = "."}) <= 1

\* the first number written in a string: the longest literal that starts at
\* its first digit
FirstNumber(s) ==
    LET p == CHOOSE i \in DOMAIN s : isdigit(s[i]) /\ \A k \in 1..(i - 1) : ~isdigit(s[k])
        e == Max({i \in p..Len(s) : IsLiteral(SubSeq(s, p, i))})
    IN float_of(SubSeq(s, p, e))

\* the float that stands for a value of the model's answer
Preserved(value) ==
    IF value.t \in {"int", "float"} THEN FloatValue(value.n)
    ELSE IF value.t = "str" /\ (\E i \in DOMAIN value.s : isdigit(value.s[i]))
         THEN FloatValue(FirstNumber(value.s))
         ELSE FloatValue(0)

\* C37: after ensure_typing the carbs, proteins and fats of every ingredient
\* are the number the model returned when it returned an integer or a float,
\* the first number in the string when it returned a string, and 0.0 only
\* when the value is missing or not numeric.
C37_TypingPreservesNumbers ==
    \A j \in DOMAIN jobs :
        jobs[j].output.parsed =>
            \A i \in DOMAIN jobs[j].output.ingredients :
                LET raw == jobs[j].output.ingredients[i]
                    out == jobs[j].typed.ingredients[i]
                IN /\ out.carbs = Preserved(raw.carbs)
                   /\ out.proteins = Preserved(raw.proteins)
                   /\ out.fats = Preserved(raw.fats)

====
